---- MODULE Spec2Model ----
(***************************************************************************)
(* Model of the SpeakNest AI backend relay (src/app.py): three POST        *)
(* endpoints forward a prompt (and, for two of them, an uploaded audio     *)
(* file) to the generative-model collaborator, parse the tagged reply with *)
(* extract_segments and answer with a JSON envelope.                       *)
(*                                                                         *)
(* Text is a sequence of tokens.  A token stands for a run of characters   *)
(* that the regular expression of extract_segments and the substring test  *)
(* of the handlers cannot split: the two language markers, the error       *)
(* marker and its closing tag, a `[` that opens nothing the pattern knows  *)
(* (an unrecognized marker such as [fr], a bracket in prose), a space, a   *)
(* newline, a letter, and the literal messages of the program (prose with  *)
(* no bracket, no newline and no outer whitespace).                        *)
(***************************************************************************)
EXTENDS Integers, Sequences, FiniteSets, TLC

\* ------------------------------------------------------------------ bounds
\* longest collaborator reply, in tokens
MaxLen == 4
\* longest exception message, in tokens
MaxErrLen == 2

\* ------------------------------------------------------------- text tokens
ES == "[es]"
EN == "[en]"
COLOR == "[color=ff0000]"
ENDCOLOR == "[/color]"
LB == "["
SP == " "
NL == "\n"
LETTER == "a"

\* what the collaborator (or an exception message) may contain
Alphabet == {ES, EN, COLOR, LB, SP, NL, LETTER}

\* tokens whose first character is `[`
OpensBracket(t) == t \in {ES, EN, COLOR, ENDCOLOR, LB}

\* the alternatives of the group (es|en)
IsMarker(t) == t \in {ES, EN}

MarkerLang(t) == IF t = ES THEN "es" ELSE "en"

IsSpace(t) == t \in {SP, NL}

RECURSIVE TextsUpTo(_)
TextsUpTo(n) ==
    IF n = 0 THEN {<<>>}
    ELSE LET shorter == TextsUpTo(n - 1)
         IN shorter \cup {Append(s, t) : s \in shorter, t \in Alphabet}

\* ------------------------------------------------------- string operations
\* str.strip(): drop leading and trailing whitespace
RECURSIVE lstrip(_)
lstrip(s) ==
    IF s = <<>> THEN <<>>
    ELSE IF IsSpace(Head(s)) THEN lstrip(Tail(s)) ELSE s

RECURSIVE rstrip(_)
rstrip(s) ==
    IF s = <<>> THEN <<>>
    ELSE IF IsSpace(s[Len(s)]) THEN rstrip(SubSeq(s, 1, Len(s) - 1)) ELSE s

strip(s) == rstrip(lstrip(s))

\* '[color=ff0000]' in text
HasErrorMarker(text) == \E i \in 1..Len(text) : text[i] = COLOR

\* ------------------------------------------------------- extract_segments
\* the lookahead (?=\[|$|\n\n) at the position before token i; `$` without
\* re.MULTILINE matches at the end and before a final newline
Lookahead(text, i) ==
    \/ i = Len(text) + 1
    \/ i = Len(text) /\ text[i] = NL
    \/ i <= Len(text) /\ OpensBracket(text[i])
    \/ i < Len(text) /\ text[i] = NL /\ text[i + 1] = NL

\* the lazy group (.*?) started at position i stops at the first position
\* where the lookahead matches
RECURSIVE CaptureEnd(_, _)
CaptureEnd(text, i) ==
    IF Lookahead(text, i) THEN i ELSE CaptureEnd(text, i + 1)

\* re.findall(pattern, text, re.DOTALL) from position i: the non-overlapping
\* matches, left to right, as (lang, captured text) pairs
RECURSIVE findall(_, _)
findall(text, i) ==
    IF i > Len(text) THEN <<>>
    ELSE IF IsMarker(text[i])
         THEN LET j == CaptureEnd(text, i + 1)
              IN <<[lang |-> MarkerLang(text[i]),
                    text |-> SubSeq(text, i + 1, j - 1)]>> \o findall(text, j)
         ELSE findall(text, i + 1)

NotBlank(m) == strip(m.text) # <<>>

Stripped(matches) ==
    [k \in 1..Len(matches) |->
        [lang |-> matches[k].lang, text |-> strip(matches[k].text)]]

extract_segments(text) == Stripped(SelectSeq(findall(text, 1), NotBlank))

\* ------------------------------------------------------------ the requests
\* len(audio_data) below which the audio handlers refuse the upload
MinAudioLen == 100

\* sizes of the uploaded payload, in bytes
AudioSizes == {0, MinAudioLen - 1, MinAudioLen}

\* audio_file.filename
Filenames == {"", "rec.webm", "rec.mp3", "rec.wav", "blob"}

\* mimetypes.guess_type(filename)[0]; "None" is Python's None
guess_type(filename) ==
    CASE filename = "rec.webm" -> "video/webm"
      [] filename = "rec.mp3" -> "audio/mpeg"
      [] filename = "rec.wav" -> "audio/x-wav"
      [] OTHER -> "None"

\* data['text'] of /process_intro: absent, a string, or a value that cannot
\* be sliced
TextKinds == {"missing", "str", "int"}

Endpoints == {"process_intro", "process_conversation", "process_audio"}

AudioEndpoints == {"process_conversation", "process_audio"}

NoRequest ==
    [is_json |-> FALSE, text |-> "missing", scenario |-> FALSE,
     has_file |-> FALSE, filename |-> "", audio_len |-> 0,
     is_ios |-> FALSE, is_chrome_ios |-> FALSE]

IntroRequest(is_json, text, scenario) ==
    [NoRequest EXCEPT !.is_json = is_json, !.text = text,
                      !.scenario = scenario]

AudioRequest(has_file, filename, audio_len, is_ios, is_chrome_ios) ==
    [NoRequest EXCEPT !.has_file = has_file, !.filename = filename,
                      !.audio_len = audio_len, !.is_ios = is_ios,
                      !.is_chrome_ios = is_chrome_ios]

\* ------------------------------------------------------- the collaborator
\* model.generate_content(...) followed by response.text: a reply text, or
\* an exception whose str() is the text
Outcomes ==
    [kind : {"text"}, text : TextsUpTo(MaxLen)]
        \cup [kind : {"raise"}, text : TextsUpTo(MaxErrLen)]

NoOutcome == [kind |-> "none", text |-> <<>>]

\* ------------------------------------------------------------- envelopes
ErrorText(message) == <<COLOR>> \o message \o <<ENDCOLOR>>

ErrorPart(message) ==
    [text |-> ErrorText(message), lang |-> "es", duration |-> 0]

ResponseParts(segments) ==
    [k \in 1..Len(segments) |->
        [text |-> segments[k].text, lang |-> segments[k].lang,
         duration |-> 0]]

NoEnvelope == [status |-> 0, success |-> FALSE, key |-> "none", parts |-> <<>>]

\* the answer to OPTIONS: an empty body
EmptyBody == [status |-> 200, success |-> FALSE, key |-> "none", parts |-> <<>>]

error_response(message) ==
    [status |-> 400, success |-> FALSE, key |-> "response",
     parts |-> <<ErrorPart(message)>>]

jsonify(success, key, parts) ==
    [status |-> 200, success |-> success, key |-> key, parts |-> parts]

\* ---------------------------------------------------- the helper functions
\* Each helper takes the collaborator's outcome o as an argument and returns,
\* besides its Python result, the calls it made to the collaborator and the
\* texts it ran extract_segments on.
supported_mime_types == {"audio/webm", "audio/mp4", "audio/mpeg"}

\* audio_to_base64 encodes the non-empty bytes read from the upload and so
\* never returns an empty value: the branch that tests it is not taken.

\* process_with_gemini without the fallback to audio/webm
process_with_gemini_no_fallback(audio_len, prompt, mime_type, o) ==
    IF audio_len = 0
    THEN [text |-> ErrorText(<<"Error: Empty audio data">>), calls |-> <<>>]
    ELSE [text |-> IF o.kind = "raise"
                   THEN ErrorText(<<"Gemini error: ">> \o o.text)
                   ELSE o.text,
          calls |-> <<[prompt |-> prompt, audio |-> TRUE,
                       mime_type |-> mime_type]>>]

process_with_gemini(audio_len, prompt, mime_type, o) ==
    IF audio_len = 0
    THEN [text |-> ErrorText(<<"Error: Empty audio data">>), calls |-> <<>>]
    ELSE LET handed == IF mime_type \notin supported_mime_types
                       THEN "audio/webm" ELSE mime_type
         IN [text |-> IF o.kind = "raise"
                      THEN ErrorText(<<"Gemini error: ">> \o o.text)
                      ELSE o.text,
             calls |-> <<[prompt |-> prompt, audio |-> TRUE,
                          mime_type |-> handed]>>]

process_conversation_with_gemini(audio_len, is_ios, is_chrome_ios, o) ==
    IF audio_len < MinAudioLen
    THEN [response_text |-> ErrorText(<<"Error: Empty or too short audio">>),
          response_parts |-> <<ErrorPart(<<"Empty audio">>)>>,
          calls |-> <<>>, extracted |-> <<>>]
    ELSE LET mime_type == IF is_ios \/ is_chrome_ios
                          THEN "audio/webm" ELSE "audio/webm;codecs=opus"
             g == process_with_gemini(audio_len, "conversation", mime_type, o)
             response_text == g.text
             segments == extract_segments(response_text)
         IN IF response_text = <<>>
            THEN [response_text |-> ErrorText(<<"Empty response">>),
                  response_parts |-> <<ErrorPart(<<"Empty response">>)>>,
                  calls |-> g.calls, extracted |-> <<>>]
            ELSE IF segments = <<>>
            THEN [response_text |-> ErrorText(<<"Invalid format">>),
                  response_parts |-> <<ErrorPart(<<"Invalid format">>)>>,
                  calls |-> g.calls, extracted |-> <<response_text>>]
            ELSE [response_text |-> response_text,
                  response_parts |-> ResponseParts(segments),
                  calls |-> g.calls, extracted |-> <<response_text>>]

process_intro_text(o) ==
    LET calls == <<[prompt |-> "intro", audio |-> FALSE, mime_type |-> "None"]>>
        response_text == strip(o.text)
        segments == extract_segments(response_text)
    IN IF o.kind = "raise"
       THEN [response_text |-> ErrorText(<<"Error: ">> \o o.text),
             response_parts |-> <<ErrorPart(o.text)>>,
             calls |-> calls, extracted |-> <<>>]
       ELSE IF response_text = <<>>
       THEN [response_text |-> ErrorText(<<"Empty response">>),
             response_parts |-> <<ErrorPart(<<"Empty response">>)>>,
             calls |-> calls, extracted |-> <<>>]
       ELSE IF segments = <<>>
       THEN [response_text |-> ErrorText(<<"Invalid format">>),
             response_parts |-> <<ErrorPart(<<"Invalid format">>)>>,
             calls |-> calls, extracted |-> <<response_text>>]
       ELSE [response_text |-> response_text,
             response_parts |-> ResponseParts(segments),
             calls |-> calls, extracted |-> <<response_text>>]

\* the length tests of the two audio handlers
conversation_too_short(audio_len) == audio_len < MinAudioLen

\* the length test of process_audio with the threshold one byte low
audio_too_short_off_by_one(audio_len) == audio_len < MinAudioLen - 1

audio_too_short(audio_len) == audio_len < MinAudioLen

\* the body of process_audio after its validation
process_audio_body(filename, audio_len, o) ==
    LET guessed == guess_type(filename)
        mime_type == IF guessed = "None" THEN "audio/webm" ELSE guessed
        g == process_with_gemini(audio_len, "feedback", mime_type, o)
        feedback_text == g.text
        segments == extract_segments(feedback_text)
    IN [response_text |-> feedback_text,
        response_parts |-> ResponseParts(segments),
        calls |-> g.calls, extracted |-> <<feedback_text>>]

\* ------------------------------------------------------------------ state
VARIABLES
    pc,         \* "idle", "calling" (blocked in generate_content), "responded"
    endpoint,   \* the route of the request being served
    method,     \* its HTTP method
    req,        \* the request
    outcome,    \* what the collaborator did, once it was called
    calls,      \* the calls made to the collaborator during the request
    extracted,  \* the texts extract_segments was run on during the request
    raw,        \* the raw text the handler obtained, if it obtained one
    envelope    \* the answer sent

vars == <<pc, endpoint, method, req, outcome, calls, extracted, raw, envelope>>

NoRaw == [got |-> FALSE, text |-> <<>>]

Init ==
    /\ pc = "idle"
    /\ endpoint = "none"
    /\ method = "none"
    /\ req = NoRequest
    /\ outcome = NoOutcome
    /\ calls = <<>>
    /\ extracted = <<>>
    /\ raw = NoRaw
    /\ envelope = NoEnvelope

\* the handler returns without having reached the helper
Reject(e) ==
    /\ pc' = "responded"
    /\ envelope' = e
    /\ UNCHANGED <<outcome, calls, extracted, raw>>

\* the handler returns the envelope built from a helper's result r
Answer(r, e, o) ==
    /\ pc' = "responded"
    /\ outcome' = o
    /\ calls' = r.calls
    /\ extracted' = r.extracted
    /\ raw' = [got |-> TRUE, text |-> r.response_text]
    /\ envelope' = e

\* the handler blocks in model.generate_content
Block(r) ==
    /\ pc' = "calling"
    /\ calls' = r.calls
    /\ UNCHANGED <<outcome, extracted, raw, envelope>>

Arrive(e, m, r) ==
    /\ endpoint' = e
    /\ method' = m
    /\ req' = r

conversation_envelope(r) ==
    jsonify(~HasErrorMarker(r.response_text), "response", r.response_parts)

audio_envelope(r) == jsonify(TRUE, "feedback", r.response_parts)

\* ---------------------------------------------------------------- actions
\* an OPTIONS pre-flight on any of the three routes
Options ==
    /\ pc = "idle"
    /\ \E e \in Endpoints :
        /\ Arrive(e, "OPTIONS", NoRequest)
        /\ Reject(EmptyBody)

\* POST /process_intro, up to the collaborator call
process_intro ==
    /\ pc = "idle"
    /\ \E is_json \in BOOLEAN, text \in TextKinds, scenario \in BOOLEAN :
        /\ Arrive("process_intro", "POST", IntroRequest(is_json, text, scenario))
        /\ IF ~is_json
           THEN Reject(error_response(<<"Request must be JSON">>))
           ELSE IF text = "missing" \/ ~scenario
           THEN Reject(error_response(<<"Missing text or scenario">>))
           ELSE IF text = "int"
           THEN Reject(error_response(
                    <<"Server error: ", "'int' object is not subscriptable">>))
           ELSE Block(process_intro_text(NoOutcome))

\* POST /process_intro, from the collaborator's return
process_intro_return ==
    /\ pc = "calling"
    /\ endpoint = "process_intro"
    /\ UNCHANGED <<endpoint, method, req>>
    /\ \E o \in Outcomes :
           LET r == process_intro_text(o)
           IN Answer(r, conversation_envelope(r), o)

\* POST /process_conversation, up to the collaborator call
process_conversation ==
    /\ pc = "idle"
    /\ \E has_file \in BOOLEAN, filename \in Filenames,
          audio_len \in AudioSizes, is_ios \in BOOLEAN,
          is_chrome_ios \in BOOLEAN :
        /\ has_file \/ (filename = "" /\ audio_len = 0)
        /\ Arrive("process_conversation", "POST",
                  AudioRequest(has_file, filename, audio_len, is_ios,
                               is_chrome_ios))
        /\ IF ~has_file
           THEN Reject(error_response(<<"Missing audio file">>))
           ELSE IF filename = ""
           THEN Reject(error_response(<<"No selected file">>))
           ELSE IF conversation_too_short(audio_len)
           THEN Reject(error_response(<<"Audio too short">>))
           ELSE LET r == process_conversation_with_gemini(
                             audio_len, is_ios, is_chrome_ios, NoOutcome)
                IN IF r.calls = <<>>
                   THEN Answer(r, conversation_envelope(r), NoOutcome)
                   ELSE Block(r)

\* POST /process_conversation, from the collaborator's return
process_conversation_return ==
    /\ pc = "calling"
    /\ endpoint = "process_conversation"
    /\ UNCHANGED <<endpoint, method, req>>
    /\ \E o \in Outcomes :
           LET r == process_conversation_with_gemini(
                        req.audio_len, req.is_ios, req.is_chrome_ios, o)
           IN Answer(r, conversation_envelope(r), o)

\* POST /process_audio, up to the collaborator call
process_audio ==
    /\ pc = "idle"
    /\ \E has_file \in BOOLEAN, filename \in Filenames,
          audio_len \in AudioSizes :
        /\ has_file \/ (filename = "" /\ audio_len = 0)
        /\ Arrive("process_audio", "POST",
                  AudioRequest(has_file, filename, audio_len, FALSE, FALSE))
        /\ IF ~has_file
           THEN Reject(error_response(<<"No audio file received">>))
           ELSE IF filename = ""
           THEN Reject(error_response(<<"Empty filename">>))
           ELSE IF audio_too_short(audio_len)
           THEN Reject(error_response(<<"Audio too short">>))
           ELSE LET r == process_audio_body(filename, audio_len, NoOutcome)
                IN IF r.calls = <<>>
                   THEN Answer(r, audio_envelope(r), NoOutcome)
                   ELSE Block(r)

\* POST /process_audio, from the collaborator's return
process_audio_return ==
    /\ pc = "calling"
    /\ endpoint = "process_audio"
    /\ UNCHANGED <<endpoint, method, req>>
    /\ \E o \in Outcomes :
           LET r == process_audio_body(req.filename, req.audio_len, o)
           IN Answer(r, audio_envelope(r), o)

\* the server goes on to the next request; nothing outlives a request
serve_next ==
    /\ pc = "responded"
    /\ pc' = "idle"
    /\ endpoint' = "none"
    /\ method' = "none"
    /\ req' = NoRequest
    /\ outcome' = NoOutcome
    /\ calls' = <<>>
    /\ extracted' = <<>>
    /\ raw' = NoRaw
    /\ envelope' = NoEnvelope

Next ==
    \/ Options
    \/ process_intro
    \/ process_intro_return
    \/ process_conversation
    \/ process_conversation_return
    \/ process_audio
    \/ process_audio_return
    \/ serve_next

Spec == Init /\ [][Next]_vars

\* ------------------------------------------------- vocabulary of the claims
\* a POST request has been answered with a JSON envelope
Enveloped == pc = "responded" /\ method = "POST"

\* success false, one part, its text carrying the error marker, lang es
StandardError(e) ==
    /\ e.success = FALSE
    /\ Len(e.parts) = 1
    /\ HasErrorMarker(e.parts[1].text)
    /\ e.parts[1].lang = "es"

ShortAudio ==
    endpoint \in AudioEndpoints /\ req.has_file /\ req.audio_len < MinAudioLen

MissingInput ==
    \/ endpoint \in AudioEndpoints /\ (~req.has_file \/ req.filename = "")
    \/ endpoint = "process_intro"
          /\ (~req.is_json \/ req.text = "missing" \/ ~req.scenario)

CollaboratorRaised == outcome.kind = "raise"

EmptyReply == outcome.kind = "text" /\ outcome.text = <<>>

NoTagsInReply ==
    /\ outcome.kind = "text"
    /\ \A i \in 1..Len(outcome.text) : ~IsMarker(outcome.text[i])

\* C1: in every JSON envelope of the three endpoints, raw text that
\* contains [color=ff0000] comes with success = false
C1_MarkerImpliesFailure ==
    (Enveloped /\ raw.got /\ HasErrorMarker(raw.text))
        => envelope.success = FALSE

\* C2: every failure condition on every endpoint yields success = false and
\* exactly one part, whose text contains [color=ff0000] and whose lang is es
C2_FailureGivesStandardError ==
    (Enveloped /\ (ShortAudio \/ MissingInput \/ CollaboratorRaised
                     \/ EmptyReply \/ NoTagsInReply))
        => StandardError(envelope)

\* C3: when extract_segments returns no segment the caller reports a
\* failure, and no envelope has success = true with an empty part list
C3_NoEmptySuccess ==
    Enveloped =>
        /\ \A k \in 1..Len(extracted) :
              extract_segments(extracted[k]) = <<>> => envelope.success = FALSE
        /\ ~(envelope.success /\ envelope.parts = <<>>)

\* C4: on the audio endpoints a payload shorter than 100 bytes (empty
\* included) ends the request with the standard error envelope, and the
\* collaborator is never called during that request
C4_ShortAudioShortCircuits ==
    (pc # "idle" /\ method = "POST" /\ ShortAudio)
        => /\ pc = "responded"
           /\ calls = <<>>
           /\ outcome = NoOutcome
           /\ StandardError(envelope)

\* a 99-byte upload to /process_audio has been refused
C4_Witness ==
    /\ Enveloped
    /\ endpoint = "process_audio"
    /\ req.has_file
    /\ req.filename # ""
    /\ req.audio_len = MinAudioLen - 1
    /\ envelope = error_response(<<"Audio too short">>)

\* the position of the marker that follows position i, or the end
RECURSIVE NextMarker(_, _)
NextMarker(text, i) ==
    IF i > Len(text) \/ IsMarker(text[i]) THEN i ELSE NextMarker(text, i + 1)

\* the sections of a text that starts at a marker: each marker with the
\* text up to the next marker, trimmed
RECURSIVE Sections(_, _)
Sections(text, i) ==
    IF i > Len(text) THEN <<>>
    ELSE LET j == NextMarker(text, i + 1)
         IN <<[lang |-> MarkerLang(text[i]),
               text |-> strip(SubSeq(text, i + 1, j - 1))]>>
                \o Sections(text, j)

MadeOfSections(text) ==
    /\ text # <<>>
    /\ IsMarker(text[1])
    /\ \A k \in 1..Len(Sections(text, 1)) : Sections(text, 1)[k].text # <<>>

\* C5: for a text made of N sections, each a marker followed by text that
\* is not blank, extract_segments returns the N (lang, trimmed text) pairs
\* in the order of the markers
C5_SectionsInOrder ==
    \A k \in 1..Len(extracted) :
        MadeOfSections(extracted[k])
            => extract_segments(extracted[k]) = Sections(extracted[k], 1)

\* the end of a capture as the claim has it: the next [es]/[en] marker, a
\* blank line, or the end of the string
RECURSIVE ClaimedCaptureEnd(_, _)
ClaimedCaptureEnd(text, i) ==
    IF \/ i > Len(text)
       \/ IsMarker(text[i])
       \/ (i < Len(text) /\ text[i] = NL /\ text[i + 1] = NL)
    THEN i
    ELSE ClaimedCaptureEnd(text, i + 1)

RECURSIVE ClaimedCaptures(_, _)
ClaimedCaptures(text, i) ==
    IF i > Len(text) THEN <<>>
    ELSE IF IsMarker(text[i])
         THEN LET j == ClaimedCaptureEnd(text, i + 1)
              IN <<[lang |-> MarkerLang(text[i]),
                    text |-> SubSeq(text, i + 1, j - 1)]>>
                     \o ClaimedCaptures(text, j)
         ELSE ClaimedCaptures(text, i + 1)

\* C6: the text captured for a marker runs to the nearest of the next
\* [es]/[en] marker, a blank line and the end of the string; a `[` that
\* opens no such marker does not end it (compared up to outer whitespace)
C6_OnlyMarkersEndCapture ==
    \A k \in 1..Len(extracted) :
        Stripped(findall(extracted[k], 1))
            = Stripped(ClaimedCaptures(extracted[k], 1))

\* the content-type label the handler determines for the uploaded file
LabelOf(filename) ==
    IF guess_type(filename) = "None" THEN "audio/webm" ELSE guess_type(filename)

\* C7: on the audio endpoints the label determined for the uploaded file
\* is the mime_type handed to the collaborator
C7_MimeTypePassedThrough ==
    (endpoint \in AudioEndpoints /\ method = "POST")
        => \A k \in 1..Len(calls) : calls[k].mime_type = LabelOf(req.filename)

\* C7 as amended: /process_audio hands the collaborator the file's label
\* when that label is audio/webm, audio/mp4 or audio/mpeg and audio/webm
\* otherwise; /process_conversation always hands it audio/webm
C7_MimeTypeAdjusted ==
    (endpoint \in AudioEndpoints /\ method = "POST")
        => \A k \in 1..Len(calls) :
              calls[k].mime_type =
                  IF /\ endpoint = "process_audio"
                     /\ LabelOf(req.filename) \in supported_mime_types
                  THEN LabelOf(req.filename)
                  ELSE "audio/webm"

\* /process_audio has handed the collaborator the label of an .mp3 upload
C7_Witness ==
    /\ endpoint = "process_audio"
    /\ req.filename = "rec.mp3"
    /\ calls # <<>>
    /\ calls[1].mime_type = "audio/mpeg"
    /\ LabelOf(req.filename) = "audio/mpeg"

\* C8: /process_audio carries its part list under `feedback` in every JSON
\* envelope, /process_intro and /process_conversation under `response`
C8_EnvelopeKey ==
    Enveloped =>
        envelope.key = IF endpoint = "process_audio" THEN "feedback"
                                                     ELSE "response"

\* C9: the first stage that fails ends the pipeline: no collaborator call
\* after an input-validation failure, no extract_segments after a
\* collaborator failure (exception or empty reply)
C9_FirstFailureWins ==
    Enveloped =>
        /\ (ShortAudio \/ MissingInput) => calls = <<>>
        /\ (CollaboratorRaised \/ EmptyReply) => extracted = <<>>

\* C10: on /process_intro and /process_conversation, success = true comes
\* with a non-empty list of parts with lang in {es, en}, a non-empty trimmed
\* text and duration 0; success = false comes with parts whose text all
\* contain [color=ff0000]
C10_ConversationalEnvelope ==
    (Enveloped /\ endpoint \in {"process_intro", "process_conversation"})
        => /\ envelope.success =>
                /\ envelope.parts # <<>>
                /\ \A k \in 1..Len(envelope.parts) :
                      /\ envelope.parts[k].lang \in {"es", "en"}
                      /\ envelope.parts[k].text # <<>>
                      /\ strip(envelope.parts[k].text) = envelope.parts[k].text
                      /\ envelope.parts[k].duration = 0
           /\ ~envelope.success =>
                \A k \in 1..Len(envelope.parts) :
                    HasErrorMarker(envelope.parts[k].text)

====
